---------------------------- MODULE Spec2Model ----------------------------
(***************************************************************************)
(* Model of the kubeip agent bootstrap (cmd/main.go) and of the Helm       *)
(* naming helper kubeip.fullname (chart/templates/_helpers.tpl).           *)
(*                                                                         *)
(* Strings whose characters matter (log level names, Helm names) are       *)
(* sequences of one-character strings.  Errors are chains of frames,       *)
(* outermost wrap first; the nil error is the empty chain.                 *)
(***************************************************************************)
EXTENDS Integers, Sequences, FiniteSets, TLC

VARIABLES
    args,        \* the parsed command line / environment (cli.Context)
    fs,          \* the file system: state of the file at each path
    pc,          \* position of the process in runCmd / run
    logger,      \* the logger built by prepareLogger
    cfg,         \* the run configuration built by config.LoadConfig
    parentDone,  \* the signal handler's context is cancelled
    cancelled,   \* run's own cancel() was called
    develop,     \* the develop-mode value carried by run's context
    restconfig,  \* result of retrieveKubeConfig
    clientset,   \* result of kubernetes.NewForConfig
    node,        \* result of explorer.GetNode
    runErr,      \* the error run returned (Nil: none)
    trace,       \* calls and log calls made so far, in order
    hvals,       \* Helm: release name, chart name and the overrides
    hfullname    \* Helm: the rendered kubeip.fullname

runVars == <<args, fs, pc, logger, cfg, parentDone, cancelled, develop,
             restconfig, clientset, node, runErr, trace>>
helmVars == <<hvals, hfullname>>
vars == <<args, fs, pc, logger, cfg, parentDone, cancelled, develop,
          restconfig, clientset, node, runErr, trace, hvals, hfullname>>

---------------------------------------------------------------------------
(* Reading the trace *)

Has(e) == \E i \in DOMAIN trace : trace[i] = e
Count(e) == Cardinality({ i \in DOMAIN trace : trace[i] = e })
\* every occurrence of b comes after an occurrence of a
Before(a, b) ==
    \A j \in DOMAIN trace :
        trace[j] = b => \E i \in 1..(j - 1) : trace[i] = a

---------------------------------------------------------------------------
(* Characters and case *)

LowerChars == <<"a","b","c","d","e","f","g","h","i","j","k","l","m",
                "n","o","p","q","r","s","t","u","v","w","x","y","z">>
UpperChars == <<"A","B","C","D","E","F","G","H","I","J","K","L","M",
                "N","O","P","Q","R","S","T","U","V","W","X","Y","Z">>

ToUpperChar(c) ==
    IF \E i \in DOMAIN LowerChars : LowerChars[i] = c
    THEN UpperChars[CHOOSE i \in DOMAIN LowerChars : LowerChars[i] = c]
    ELSE c

ToLowerChar(c) ==
    IF \E i \in DOMAIN UpperChars : UpperChars[i] = c
    THEN LowerChars[CHOOSE i \in DOMAIN UpperChars : UpperChars[i] = c]
    ELSE c

ToLower(s) == [i \in DOMAIN s |-> ToLowerChar(s[i])]
ToUpper(s) == [i \in DOMAIN s |-> ToUpperChar(s[i])]

\* every upper/lower-case spelling of a lower-case name
Spellings(n) ==
    { [i \in DOMAIN n |-> IF b[i] THEN ToUpperChar(n[i]) ELSE n[i]] :
        b \in [DOMAIN n -> BOOLEAN] }

---------------------------------------------------------------------------
(* prepareLogger *)

sDebug   == <<"d","e","b","u","g">>
sInfo    == <<"i","n","f","o">>
sWarning == <<"w","a","r","n","i","n","g">>
sError   == <<"e","r","r","o","r">>
sFatal   == <<"f","a","t","a","l">>
sPanic   == <<"p","a","n","i","c">>

LevelNames == {sDebug, sInfo, sWarning, sError, sFatal, sPanic}

\* the logrus level each recognised name stands for
LevelOf(n) ==
    CASE n = sDebug   -> "DebugLevel"
      [] n = sInfo    -> "InfoLevel"
      [] n = sWarning -> "WarnLevel"
      [] n = sError   -> "ErrorLevel"
      [] n = sFatal   -> "FatalLevel"
      [] n = sPanic   -> "PanicLevel"

\* the switch of prepareLogger: exact comparison with twelve literals
SwitchLevel(level) ==
    CASE level \in {sDebug,   ToUpper(sDebug)}   -> "DebugLevel"
      [] level \in {sInfo,    ToUpper(sInfo)}    -> "InfoLevel"
      [] level \in {sWarning, ToUpper(sWarning)} -> "WarnLevel"
      [] level \in {sError,   ToUpper(sError)}   -> "ErrorLevel"
      [] level \in {sFatal,   ToUpper(sFatal)}   -> "FatalLevel"
      [] level \in {sPanic,   ToUpper(sPanic)}   -> "PanicLevel"
      [] OTHER -> "WarnLevel"

prepareLogger(level, json) ==
    [level     |-> SwitchLevel(level),
     formatter |-> IF json THEN "JSONFormatter" ELSE "TextFormatter",
     reportCaller |-> TRUE]

NoLogger == [level |-> "none", formatter |-> "none", reportCaller |-> FALSE]

\* level strings that are no spelling of a recognised name
OtherLevels ==
    { <<>>, <<"w","a","r","n">>, <<"t","r","a","c","e">>,
      <<"d","e","b","u","g","x">>, <<"i","n","f">>, <<"I","N","F","O"," ">>,
      <<"e","r","r">>, <<"0">>, <<"v","e","r","b","o","s","e">> }

AllLevelInputs == (UNION { Spellings(n) : n \in LevelNames }) \cup OtherLevels

\* the level strings the runs of the whole command are explored with
RunLevelInputs == { sInfo, ToUpper(sDebug), <<"D","e","b","u","g">> }

---------------------------------------------------------------------------
(* Errors *)

Nil == <<>>
Frame(msg, arg) == [msg |-> msg, arg |-> arg]
New(msg) == <<Frame(msg, "")>>
Wrap(err, msg) == <<Frame(msg, "")>> \o err
Wrapf(err, msg, arg) == <<Frame(msg, arg)>> \o err
Is(err, target) == \E i \in DOMAIN err : err[i] = target[1]
HasMsg(err, msg) == \E i \in DOMAIN err : err[i].msg = msg

errEmptyPath == New("empty path")


---------------------------------------------------------------------------
(* Command line, configuration and environment *)

defaultRetryInterval == 300
defaultRetryAttempts == 10

Paths == {"", "/etc/kubeip/kubeconfig", "/root/.kube/config"}
FileStates == {"absent", "unreadable", "malformed", "valid"}

\* the flags of the run command, as parsed by the cli library
ArgSet ==
    [logLevel      : RunLevelInputs,
     json          : BOOLEAN,
     nodeName      : {"node-1"},
     kubeconfig    : Paths,
     retryInterval : {defaultRetryInterval},
     retryAttempts : {0, defaultRetryAttempts},
     developMode   : BOOLEAN]

\* no file has the empty name
FsSet == { f \in [Paths -> FileStates] : f[""] = "absent" }

ZeroConfig ==
    [NodeName |-> "", KubeConfigPath |-> "", RetryInterval |-> 0,
     RetryAttempts |-> 0, DevelopMode |-> FALSE]

\* config.LoadConfig: the flags copied into the typed settings record
LoadConfig(c) ==
    [NodeName       |-> c.nodeName,
     KubeConfigPath |-> c.kubeconfig,
     RetryInterval  |-> c.retryInterval,
     RetryAttempts  |-> c.retryAttempts,
     DevelopMode    |-> c.developMode]

NoRest == [source |-> "none"]

---------------------------------------------------------------------------
(* Credential resolution *)

\* os.ReadFile on the modelled file system
ReadFile(path) ==
    CASE fs[path] = "absent" ->
            [data |-> "", err |-> New("no such file or directory")]
      [] fs[path] = "unreadable" ->
            [data |-> "", err |-> New("permission denied")]
      [] OTHER -> [data |-> fs[path], err |-> Nil]

\* clientcmd.RESTConfigFromKubeConfig on the content read
RESTConfigFromKubeConfig(data) ==
    IF data = "valid"
    THEN [cfg |-> [source |-> "kubeconfig"], err |-> Nil]
    ELSE [cfg |-> NoRest, err |-> New("invalid configuration")]

\* variant: the empty path is not told apart, the read is attempted
kubeConfigFromPath_NoEmptyCheck(kubepath) ==
    LET rd == ReadFile(kubepath) IN
    IF rd.err # Nil
    THEN [cfg |-> NoRest,
          err |-> Wrapf(rd.err, "reading kubeconfig at", kubepath),
          calls |-> <<"os.ReadFile">>]
    ELSE LET rc == RESTConfigFromKubeConfig(rd.data) IN
         [cfg |-> rc.cfg,
          err |-> IF rc.err # Nil
                  THEN Wrapf(rc.err, "building rest config from kubeconfig at",
                             kubepath)
                  ELSE Nil,
          calls |-> <<"os.ReadFile", "clientcmd.RESTConfigFromKubeConfig">>]

\* variant: the read error is dropped and the (empty) data parsed
kubeConfigFromPath_IgnoreReadErr(kubepath) ==
    IF kubepath = ""
    THEN [cfg |-> NoRest, err |-> errEmptyPath, calls |-> <<>>]
    ELSE LET rd == ReadFile(kubepath)
             rc == RESTConfigFromKubeConfig(rd.data) IN
         [cfg |-> rc.cfg,
          err |-> IF rc.err # Nil
                  THEN Wrapf(rc.err, "building rest config from kubeconfig at",
                             kubepath)
                  ELSE Nil,
          calls |-> <<"os.ReadFile", "clientcmd.RESTConfigFromKubeConfig">>]

kubeConfigFromPath(kubepath) ==
    IF kubepath = ""
    THEN [cfg |-> NoRest, err |-> errEmptyPath, calls |-> <<>>]
    ELSE LET rd == ReadFile(kubepath) IN
         IF rd.err # Nil
         THEN [cfg |-> NoRest,
               err |-> Wrapf(rd.err, "reading kubeconfig at", kubepath),
               calls |-> <<"os.ReadFile">>]
         ELSE LET rc == RESTConfigFromKubeConfig(rd.data) IN
              IF rc.err # Nil
              THEN [cfg |-> NoRest,
                    err |-> Wrapf(rc.err,
                                  "building rest config from kubeconfig at",
                                  kubepath),
                    calls |-> <<"os.ReadFile",
                                "clientcmd.RESTConfigFromKubeConfig">>]
              ELSE [cfg |-> rc.cfg, err |-> Nil,
                    calls |-> <<"os.ReadFile",
                                "clientcmd.RESTConfigFromKubeConfig">>]

\* variant: any failure of the path falls back to in-cluster discovery
retrieveKubeConfig_Fallback(c, inCluster) ==
    LET k == kubeConfigFromPath(c.KubeConfigPath) IN
    IF k.err = Nil
    THEN [cfg |-> k.cfg, err |-> Nil,
          calls |-> k.calls \o
                    <<"log.Debug: using kube config from env variables">>]
    ELSE IF ~inCluster
    THEN [cfg |-> NoRest,
          err |-> Wrap(New("unable to load in-cluster configuration"),
                       "retrieving in node kube config"),
          calls |-> k.calls \o <<"rest.InClusterConfig">>]
    ELSE [cfg |-> [source |-> "in-cluster"], err |-> Nil,
          calls |-> k.calls \o <<"rest.InClusterConfig",
                                 "log.Debug: using in node kube config">>]

\* inCluster is the outcome of rest.InClusterConfig, should it be called
retrieveKubeConfig(c, inCluster) ==
    LET k == kubeConfigFromPath(c.KubeConfigPath) IN
    IF k.err # Nil /\ ~Is(k.err, errEmptyPath)
    THEN [cfg |-> NoRest,
          err |-> Wrap(k.err, "retrieving kube config from path"),
          calls |-> k.calls]
    ELSE IF k.cfg # NoRest
    THEN [cfg |-> k.cfg, err |-> Nil,
          calls |-> k.calls \o
                    <<"log.Debug: using kube config from env variables">>]
    ELSE IF ~inCluster
    THEN [cfg |-> NoRest,
          err |-> Wrap(New("unable to load in-cluster configuration"),
                       "retrieving in node kube config"),
          calls |-> k.calls \o <<"rest.InClusterConfig">>]
    ELSE [cfg |-> [source |-> "in-cluster"], err |-> Nil,
          calls |-> k.calls \o <<"rest.InClusterConfig",
                                 "log.Debug: using in node kube config">>]

---------------------------------------------------------------------------
(* The run command *)

Init ==
    /\ args \in ArgSet
    /\ fs \in FsSet
    /\ pc = "start"
    /\ logger = NoLogger
    /\ cfg = ZeroConfig
    /\ parentDone = FALSE
    /\ cancelled = FALSE
    /\ develop = FALSE
    /\ restconfig = NoRest
    /\ clientset = "none"
    /\ node = "none"
    /\ runErr = Nil
    /\ trace = <<>>
    /\ hvals = <<>>
    /\ hfullname = <<>>

\* runCmd, line 113: install the signal handler
RunCmdSetup ==
    /\ pc = "start"
    /\ pc' = "prepareLogger"
    /\ trace' = Append(trace, "signals.SetupSignalHandler")
    /\ UNCHANGED <<args, fs, logger, cfg, parentDone, cancelled, develop,
                   restconfig, clientset, node, runErr>>
    /\ UNCHANGED helmVars

\* runCmd, line 114
RunCmdPrepareLogger ==
    /\ pc = "prepareLogger"
    /\ logger' = prepareLogger(args.logLevel, args.json)
    /\ pc' = "LoadConfig"
    /\ trace' = Append(trace, "prepareLogger")
    /\ UNCHANGED <<args, fs, cfg, parentDone, cancelled, develop,
                   restconfig, clientset, node, runErr>>
    /\ UNCHANGED helmVars

\* runCmd, line 115
RunCmdLoadConfig ==
    /\ pc = "LoadConfig"
    /\ cfg' = LoadConfig(args)
    /\ pc' = "run"
    /\ trace' = Append(trace, "config.LoadConfig")
    /\ UNCHANGED <<args, fs, logger, parentDone, cancelled, develop,
                   restconfig, clientset, node, runErr>>
    /\ UNCHANGED helmVars

\* variant: cancel() is called at once instead of deferred
RunStart_CancelNotDeferred ==
    /\ pc = "run"
    /\ develop' = cfg.DevelopMode
    /\ cancelled' = TRUE
    /\ pc' = "retrieveKubeConfig"
    /\ trace' = Append(trace, "log.Infof: kubeip agent started")
    /\ UNCHANGED <<args, fs, logger, cfg, parentDone,
                   restconfig, clientset, node, runErr>>
    /\ UNCHANGED helmVars

\* run, lines 80-87: derive the context, log the start
RunStart ==
    /\ pc = "run"
    /\ develop' = cfg.DevelopMode
    /\ pc' = "retrieveKubeConfig"
    /\ trace' = Append(trace, "log.Infof: kubeip agent started")
    /\ UNCHANGED <<args, fs, logger, cfg, parentDone, cancelled,
                   restconfig, clientset, node, runErr>>
    /\ UNCHANGED helmVars

\* variant: the path is cleared in the configuration once it has been used
RunRetrieveKubeConfig_ClearsPath ==
    /\ pc = "retrieveKubeConfig"
    /\ cfg' = [cfg EXCEPT !.KubeConfigPath = ""]
    /\ \E inCluster \in BOOLEAN :
         LET r == retrieveKubeConfig(cfg, inCluster) IN
         /\ trace' = trace \o r.calls
         /\ IF r.err # Nil
            THEN /\ runErr' = Wrap(r.err, "retrieving kube config")
                 /\ cancelled' = TRUE
                 /\ pc' = "returned"
                 /\ UNCHANGED restconfig
            ELSE /\ restconfig' = r.cfg
                 /\ pc' = "NewForConfig"
                 /\ UNCHANGED <<runErr, cancelled>>
    /\ UNCHANGED <<args, fs, logger, parentDone, develop, clientset, node>>
    /\ UNCHANGED helmVars

\* run, lines 89-92
RunRetrieveKubeConfig ==
    /\ pc = "retrieveKubeConfig"
    /\ \E inCluster \in BOOLEAN :
         LET r == retrieveKubeConfig(cfg, inCluster) IN
         /\ trace' = trace \o r.calls
         /\ IF r.err # Nil
            THEN /\ runErr' = Wrap(r.err, "retrieving kube config")
                 /\ cancelled' = TRUE
                 /\ pc' = "returned"
                 /\ UNCHANGED restconfig
            ELSE /\ restconfig' = r.cfg
                 /\ pc' = "NewForConfig"
                 /\ UNCHANGED <<runErr, cancelled>>
    /\ UNCHANGED <<args, fs, logger, cfg, parentDone, develop,
                   clientset, node>>
    /\ UNCHANGED helmVars

\* run, lines 94-97
RunNewForConfig ==
    /\ pc = "NewForConfig"
    /\ trace' = Append(trace, "kubernetes.NewForConfig")
    /\ \E ok \in BOOLEAN :
         IF ok
         THEN /\ clientset' = "clientset"
              /\ pc' = "GetNode"
              /\ UNCHANGED <<runErr, cancelled>>
         ELSE /\ runErr' = Wrap(New("invalid rest config"),
                                "initializing kubernetes client")
              /\ cancelled' = TRUE
              /\ pc' = "returned"
              /\ UNCHANGED clientset
    /\ UNCHANGED <<args, fs, logger, cfg, parentDone, develop,
                   restconfig, node>>
    /\ UNCHANGED helmVars

\* variant: a failed node resolution is tried again, up to RetryAttempts
RunGetNode_Retry ==
    /\ pc = "GetNode"
    /\ \E ok \in BOOLEAN :
         IF ok
         THEN /\ node' = "node"
              /\ trace' = trace \o <<"explorer.GetNode",
                                     "log.Debug: node name">>
              /\ pc' = "wait"
              /\ UNCHANGED <<runErr, cancelled>>
         ELSE IF Count("explorer.GetNode") + 1 < cfg.RetryAttempts
         THEN /\ trace' = Append(trace, "explorer.GetNode")
              /\ UNCHANGED <<pc, runErr, cancelled, node>>
         ELSE /\ runErr' = Wrap(New("node not found"), "getting node")
              /\ trace' = Append(trace, "explorer.GetNode")
              /\ cancelled' = TRUE
              /\ pc' = "returned"
              /\ UNCHANGED node
    /\ UNCHANGED <<args, fs, logger, cfg, parentDone, develop,
                   restconfig, clientset>>
    /\ UNCHANGED helmVars

\* run, lines 99-105
RunGetNode ==
    /\ pc = "GetNode"
    /\ \E ok \in BOOLEAN :
         IF ok
         THEN /\ node' = "node"
              /\ trace' = trace \o <<"explorer.GetNode",
                                     "log.Debug: node name">>
              /\ pc' = "wait"
              /\ UNCHANGED <<runErr, cancelled>>
         ELSE /\ runErr' = Wrap(New("node not found"), "getting node")
              /\ trace' = Append(trace, "explorer.GetNode")
              /\ cancelled' = TRUE
              /\ pc' = "returned"
              /\ UNCHANGED node
    /\ UNCHANGED <<args, fs, logger, cfg, parentDone, develop,
                   restconfig, clientset>>
    /\ UNCHANGED helmVars

\* variant: the context's error is returned after the wait
RunWait_ReturnsCtxErr ==
    /\ pc = "wait"
    /\ parentDone \/ cancelled
    /\ trace' = trace \o <<"<-ctx.Done()", "log.Infof: kubeip agent stopped">>
    /\ runErr' = New("context canceled")
    /\ cancelled' = TRUE
    /\ pc' = "returned"
    /\ UNCHANGED <<args, fs, logger, cfg, parentDone, develop,
                   restconfig, clientset, node>>
    /\ UNCHANGED helmVars

\* run, lines 107-109: the receive from ctx.Done(), then the stop log
RunWait ==
    /\ pc = "wait"
    /\ parentDone \/ cancelled
    /\ trace' = trace \o <<"<-ctx.Done()", "log.Infof: kubeip agent stopped">>
    /\ runErr' = Nil
    /\ cancelled' = TRUE
    /\ pc' = "returned"
    /\ UNCHANGED <<args, fs, logger, cfg, parentDone, develop,
                   restconfig, clientset, node>>
    /\ UNCHANGED helmVars

\* variant: the error of run is dropped
RunCmdFinish_NoFatal ==
    /\ pc = "returned"
    /\ pc' = "done"
    /\ UNCHANGED trace
    /\ UNCHANGED <<args, fs, logger, cfg, parentDone, cancelled, develop,
                   restconfig, clientset, node, runErr>>
    /\ UNCHANGED helmVars

\* runCmd, lines 117-121
RunCmdFinish ==
    /\ pc = "returned"
    /\ IF runErr # Nil
       THEN /\ trace' = Append(trace, "log.Fatalf: eks-lens agent failed")
            /\ pc' = "exited"
       ELSE /\ pc' = "done"
            /\ UNCHANGED trace
    /\ UNCHANGED <<args, fs, logger, cfg, parentDone, cancelled, develop,
                   restconfig, clientset, node, runErr>>
    /\ UNCHANGED helmVars

\* an interrupt or termination signal reaches the installed handler
Signal ==
    /\ pc \notin {"start", "done", "exited"}
    /\ ~parentDone
    /\ parentDone' = TRUE
    /\ UNCHANGED <<args, fs, pc, logger, cfg, cancelled, develop,
                   restconfig, clientset, node, runErr, trace>>
    /\ UNCHANGED helmVars

Process ==
    \/ RunCmdSetup
    \/ RunCmdPrepareLogger
    \/ RunCmdLoadConfig
    \/ RunStart
    \/ RunRetrieveKubeConfig
    \/ RunNewForConfig
    \/ RunGetNode
    \/ RunWait
    \/ RunCmdFinish

Next == Process \/ Signal

Spec == Init /\ [][Next]_vars

\* the process keeps executing while it has a step to take
FairSpec == Spec /\ WF_vars(Process)

---------------------------------------------------------------------------
(* prepareLogger over every spelling of the level names *)

LoggerArgSet ==
    [logLevel      : AllLevelInputs,
     json          : BOOLEAN,
     nodeName      : {"node-1"},
     kubeconfig    : {""},
     retryInterval : {defaultRetryInterval},
     retryAttempts : {defaultRetryAttempts},
     developMode   : {FALSE}]

InitLogger ==
    /\ args \in LoggerArgSet
    /\ fs = [p \in Paths |-> "absent"]
    /\ pc = "start"
    /\ logger = NoLogger
    /\ cfg = ZeroConfig
    /\ parentDone = FALSE
    /\ cancelled = FALSE
    /\ develop = FALSE
    /\ restconfig = NoRest
    /\ clientset = "none"
    /\ node = "none"
    /\ runErr = Nil
    /\ trace = <<>>
    /\ hvals = <<>>
    /\ hfullname = <<>>

NextLogger == RunCmdSetup \/ RunCmdPrepareLogger

SpecLogger == InitLogger /\ [][NextLogger]_vars

---------------------------------------------------------------------------
(* The Helm helper kubeip.fullname *)

TruncLen == 63
MaxDash == 2
MaxPad == 1

RECURSIVE Rep(_, _)
Rep(c, n) == IF n <= 0 THEN <<>> ELSE <<c>> \o Rep(c, n - 1)

\* sprig: default d given
default(d, given) == IF given = <<>> THEN d ELSE given

\* sprig: trunc c s, for c >= 0
trunc(c, s) == IF Len(s) > c THEN SubSeq(s, 1, c) ELSE s

HasSuffix(s, suffix) ==
    /\ Len(s) >= Len(suffix)
    /\ SubSeq(s, Len(s) - Len(suffix) + 1, Len(s)) = suffix

\* sprig: trimSuffix suffix s (strings.TrimSuffix: one occurrence)
trimSuffix(suffix, s) ==
    IF HasSuffix(s, suffix) THEN SubSeq(s, 1, Len(s) - Len(suffix)) ELSE s

\* sprig: contains substr s
contains(substr, s) ==
    \E i \in 0..(Len(s) - Len(substr)) :
        SubSeq(s, i + 1, i + Len(substr)) = substr

\* printf "%s-%s" a b
printfDash(a, b) == a \o <<"-">> \o b

\* define "kubeip.fullname"
fullname(v) ==
    IF v.fullnameOverride # <<>>
    THEN trimSuffix(<<"-">>, trunc(TruncLen, v.fullnameOverride))
    ELSE LET name == default(v.chartName, v.nameOverride) IN
         IF contains(name, v.releaseName)
         THEN trimSuffix(<<"-">>, trunc(TruncLen, v.releaseName))
         ELSE trimSuffix(<<"-">>,
                         trunc(TruncLen, printfDash(v.releaseName, name)))

\* names around the truncation length, with runs of dashes inside or last
HelmNames ==
    { Rep("a", i) \o Rep("-", j) \o Rep("b", k) :
        i \in {1} \cup ((TruncLen - MaxDash - 2)..TruncLen),
        j \in 0..MaxDash, k \in 0..MaxPad }

ReleaseNames ==
    { Rep("a", i) : i \in 1..(MaxPad + 1) }
      \cup { <<"r">>, <<"a","-","b">>, Rep("a", TruncLen + 1),
             Rep("a", TruncLen - 1) \o <<"-","b">> }

ChartNames == { <<"a">>, <<"k","u","b","e","i","p">> }

HelmValues ==
    [releaseName      : ReleaseNames,
     chartName        : ChartNames,
     nameOverride     : {<<>>} \cup HelmNames,
     fullnameOverride : {<<>>} \cup HelmNames]

NotRendered == [rendered |-> FALSE, name |-> <<>>]

InitHelm ==
    /\ hvals \in HelmValues
    /\ hfullname = NotRendered
    /\ args \in { a \in LoggerArgSet : a.logLevel = sInfo /\ ~a.json }
    /\ fs = [p \in Paths |-> "absent"]
    /\ pc = "start"
    /\ logger = NoLogger
    /\ cfg = ZeroConfig
    /\ parentDone = FALSE
    /\ cancelled = FALSE
    /\ develop = FALSE
    /\ restconfig = NoRest
    /\ clientset = "none"
    /\ node = "none"
    /\ runErr = Nil
    /\ trace = <<>>

\* include "kubeip.fullname" .
RenderFullname ==
    /\ ~hfullname.rendered
    /\ hfullname' = [rendered |-> TRUE, name |-> fullname(hvals)]
    /\ UNCHANGED hvals
    /\ UNCHANGED runVars

NextHelm == RenderFullname

SpecHelm == InitHelm /\ [][NextHelm]_vars

---------------------------------------------------------------------------
(* Properties *)

ReadCall  == "os.ReadFile"
ParseCall == "clientcmd.RESTConfigFromKubeConfig"
InClusterCall == "rest.InClusterConfig"
ReadMsg   == "reading kubeconfig at"
ParseMsg  == "building rest config from kubeconfig at"
StartLog  == "log.Infof: kubeip agent started"
StopLog   == "log.Infof: kubeip agent stopped"
FatalLog  == "log.Fatalf: eks-lens agent failed"

BootstrapCalls ==
    {ReadCall, ParseCall, InClusterCall, "kubernetes.NewForConfig",
     "explorer.GetNode"}

\* retrieveKubeConfig has returned
RetrieveDone ==
    pc \in {"NewForConfig", "GetNode", "wait", "returned", "done", "exited"}

Failed == runErr # Nil

\* C1: with an empty kubeconfig path, credential resolution calls
\* rest.InClusterConfig (once), never reads a file nor parses kubeconfig
\* content, and the errEmptyPath sentinel is in no error run returns: the
\* outcome is the in-cluster configuration or the in-cluster failure.
C1_EmptyPathUsesInCluster ==
    args.kubeconfig = "" =>
        /\ ~Has(ReadCall)
        /\ ~Has(ParseCall)
        /\ ~Is(runErr, errEmptyPath)
        /\ RetrieveDone =>
             /\ Count(InClusterCall) = 1
             /\ \/ restconfig = [source |-> "in-cluster"] /\ ~HasMsg(runErr, "retrieving kube config")
                \/ /\ restconfig = NoRest
                   /\ SubSeq(runErr, 1, 2) =
                        <<Frame("retrieving kube config", ""),
                          Frame("retrieving in node kube config", "")>>

C1_Witness ==
    /\ args.kubeconfig = ""
    /\ pc = "NewForConfig"
    /\ restconfig = [source |-> "in-cluster"]
    /\ Has(InClusterCall)

\* C2: with a non-empty path, a file that cannot be read gives the
\* read-stage error for that path and the parse is never called; a file that
\* is read but malformed gives the parse-stage error for that path; no run
\* carries both stage messages, and a valid file carries neither.
C2_FailureNamesStage ==
    (RetrieveDone /\ args.kubeconfig # "") =>
        LET p == args.kubeconfig IN
        /\ fs[p] \in {"absent", "unreadable"} =>
             /\ Failed
             /\ runErr[3] = Frame(ReadMsg, p)
             /\ ~HasMsg(runErr, ParseMsg)
             /\ Has(ReadCall)
             /\ ~Has(ParseCall)
        /\ fs[p] = "malformed" =>
             /\ Failed
             /\ runErr[3] = Frame(ParseMsg, p)
             /\ ~HasMsg(runErr, ReadMsg)
             /\ Has(ReadCall)
             /\ Has(ParseCall)
        /\ fs[p] = "valid" =>
             /\ ~HasMsg(runErr, ReadMsg)
             /\ ~HasMsg(runErr, ParseMsg)
        /\ ~(HasMsg(runErr, ReadMsg) /\ HasMsg(runErr, ParseMsg))

C2_Witness ==
    /\ args.kubeconfig # ""
    /\ fs[args.kubeconfig] = "absent"
    /\ pc = "returned"
    /\ HasMsg(runErr, ReadMsg)
    /\ ~Has(ParseCall)

\* C3: exactly one credential source is used per run, the path first: with
\* a non-empty path in-cluster discovery is never called, also after the
\* read or the parse failed, and run returns the wrapped path error; with an
\* empty path only in-cluster discovery is called, and its failure is
\* returned wrapped with no file being read.
C3_ExactlyOneSource ==
    /\ args.kubeconfig # "" =>
         /\ ~Has(InClusterCall)
         /\ restconfig \in {NoRest, [source |-> "kubeconfig"]}
         /\ (RetrieveDone /\ fs[args.kubeconfig] # "valid") =>
              /\ restconfig = NoRest
              /\ SubSeq(runErr, 1, 2) =
                   <<Frame("retrieving kube config", ""),
                     Frame("retrieving kube config from path", "")>>
    /\ args.kubeconfig = "" =>
         /\ ~Has(ReadCall) /\ ~Has(ParseCall)
         /\ restconfig \in {NoRest, [source |-> "in-cluster"]}
         /\ (RetrieveDone /\ restconfig = NoRest) =>
              /\ runErr[2] = Frame("retrieving in node kube config", "")
              /\ Count(InClusterCall) = 1
    /\ RetrieveDone => (Has(InClusterCall) # Has(ReadCall))
    /\ ~RetrieveDone => (~Has(InClusterCall) /\ ~Has(ReadCall))

C3_Witness ==
    /\ args.kubeconfig # ""
    /\ fs[args.kubeconfig] = "malformed"
    /\ pc = "exited"
    /\ Has(ParseCall)
    /\ ~Has(InClusterCall)

\* C4: prepareLogger maps the level string case-insensitively: a string
\* whose lower-case form is one of the six names selects that name's level,
\* every other string selects the warning level.
C4_CaseInsensitive ==
    logger # NoLogger =>
        LET n == ToLower(args.logLevel) IN
        IF n \in LevelNames
        THEN logger.level = LevelOf(n)
        ELSE logger.level = "WarnLevel"

\* C5: once node resolution has succeeded (run is at its wait) and the
\* shutdown signal has cancelled the context, run returns nil and runCmd
\* returns without the fatal log call.
C5_ShutdownReturnsNil ==
    (pc = "wait" /\ parentDone) ~>
        (pc = "done" /\ runErr = Nil /\ ~Has(FatalLog) /\ Has(StopLog))

C5_Witness ==
    /\ pc = "done"
    /\ parentDone
    /\ node = "node"
    /\ runErr = Nil
    /\ ~Has(FatalLog)

\* C6: a failure of credential resolution, client construction or node
\* resolution ends the run: the error is wrapped with that stage's message,
\* the stage was called once, no later stage was called, the wait was not
\* reached, and runCmd ends in the fatal log call, never in a normal return;
\* this holds for every retry setting.
C6_FailureInv ==
    /\ Failed =>
         /\ pc \in {"returned", "exited"}
         /\ \A e \in BootstrapCalls : Count(e) <= 1
         /\ ~Has("log.Debug: node name")
         /\ ~Has("<-ctx.Done()")
         /\ ~Has(StopLog)
         /\ \/ /\ runErr[1] = Frame("retrieving kube config", "")
               /\ restconfig = NoRest
               /\ ~Has("kubernetes.NewForConfig")
               /\ ~Has("explorer.GetNode")
            \/ /\ runErr[1] = Frame("initializing kubernetes client", "")
               /\ Has("kubernetes.NewForConfig")
               /\ clientset = "none"
               /\ ~Has("explorer.GetNode")
            \/ /\ runErr[1] = Frame("getting node", "")
               /\ Has("explorer.GetNode")
               /\ node = "none"
    /\ pc = "done" => ~Failed
    /\ pc = "exited" => (Failed /\ Count(FatalLog) = 1)
    /\ Has(FatalLog) => pc = "exited"

C6_FailureIsFatal ==
    /\ []C6_FailureInv
    /\ [][Failed => (runErr' = runErr /\ pc' = "exited")]_<<pc, runErr, trace>>
    /\ Failed ~> (pc = "exited")

C6_Witness ==
    /\ pc = "exited"
    /\ runErr[1] = Frame("getting node", "")
    /\ args.retryAttempts = defaultRetryAttempts
    /\ Has(FatalLog)

\* the stage an event of the trace belongs to ("": none)
StageOf(e) ==
    CASE e = "prepareLogger" -> "build logger"
      [] e = "config.LoadConfig" -> "parse config"
      [] e \in {ReadCall, ParseCall, InClusterCall,
                "kubernetes.NewForConfig"} -> "build client"
      [] e = "explorer.GetNode" -> "resolve node"
      [] e = "<-ctx.Done()" -> "wait for shutdown"
      [] OTHER -> ""

\* the stages entered so far, in order, a run of events of one stage
\* counted once
RECURSIVE StagesOf(_)
StagesOf(t) ==
    IF t = <<>> THEN <<>>
    ELSE LET rest == StagesOf(SubSeq(t, 1, Len(t) - 1))
             st == StageOf(t[Len(t)]) IN
         IF st = "" \/ (rest # <<>> /\ rest[Len(rest)] = st)
         THEN rest
         ELSE Append(rest, st)

StagesEntered ==
    StagesOf(IF pc = "wait" THEN Append(trace, "<-ctx.Done()") ELSE trace)

IsPrefix(a, b) == Len(a) <= Len(b) /\ SubSeq(b, 1, Len(a)) = a

OnceEach ==
    \A e \in BootstrapCalls \cup
             {"prepareLogger", "config.LoadConfig", "<-ctx.Done()"} :
        Count(e) <= 1

\* C7 (as stated): the stages happen in the order parse config, build
\* logger, build client, resolve node, wait for shutdown, each at most once.
C7_OrderAsStated ==
    /\ IsPrefix(StagesEntered,
                <<"parse config", "build logger", "build client",
                  "resolve node", "wait for shutdown">>)
    /\ OnceEach

\* C7 (amended): the stages happen in the order build logger, parse config
\* (config.LoadConfig), build client, resolve node, wait for shutdown; each
\* is executed at most once and none is re-entered.
C7_OrderLoggerFirst ==
    /\ IsPrefix(StagesEntered,
                <<"build logger", "parse config", "build client",
                  "resolve node", "wait for shutdown">>)
    /\ OnceEach

C7_Witness ==
    /\ pc = "done"
    /\ StagesEntered = <<"build logger", "parse config", "build client",
                         "resolve node", "wait for shutdown">>

\* C8: the configuration is built once, by config.LoadConfig, and no later
\* step of run or retrieveKubeConfig changes any of its fields.
C8_ConfigImmutable ==
    /\ [](/\ Count("config.LoadConfig") <= 1
          /\ cfg = IF Has("config.LoadConfig")
                   THEN LoadConfig(args) ELSE ZeroConfig)
    /\ [][Has("config.LoadConfig") =>
            (cfg' = cfg /\ Count("config.LoadConfig")' = 1)]_vars

C8_Witness ==
    /\ pc = "exited"
    /\ cfg.DevelopMode
    /\ cfg.KubeConfigPath # ""
    /\ cfg = LoadConfig(args)

C10_FullnameValid ==
    hfullname.rendered =>
        /\ Len(hfullname.name) <= TruncLen
        /\ ~HasSuffix(hfullname.name, <<"-">>)

=============================================================================
